---- MODULE Spec2Model ----
(***************************************************************************)
(* A model of the persistence layer of EduRingWeb                          *)
(* (src/modules/databasewrapper.py): the four relations Users, Songs,      *)
(* Song_Votes and Song_Submissions and the DatabaseWrapper methods that    *)
(* read and write them, on either storage engine.                          *)
(*                                                                         *)
(* Text is a sequence of character codes.  Input text is ASCII, so         *)
(* str.encode() (UTF-8) maps a text to the byte sequence with the same     *)
(* numbers; bytes.decode() is modelled in full for the bytes a base64      *)
(* decoding can produce.                                                   *)
(***************************************************************************)
EXTENDS Integers, Sequences, FiniteSets, Bags

(***************************************************************************)
(* Encoding utility: base64.b64encode / base64.b64decode and UTF-8.        *)
(***************************************************************************)

\* The base64 alphabet: sextet 0..63 -> character code ('A'-'Z','a'-'z','0'-'9','+','/').
B64Char(i) ==
  IF i < 26 THEN 65 + i
  ELSE IF i < 52 THEN 97 + (i - 26)
  ELSE IF i < 62 THEN 48 + (i - 52)
  ELSE IF i = 62 THEN 43 ELSE 47

\* The pad character '='.
B64Pad == 61

\* Character code -> sextet, or 64 for a character outside the alphabet
\* (binascii's table_a2b_base64).
B64Val(c) ==
  IF c >= 65 /\ c <= 90 THEN c - 65
  ELSE IF c >= 97 /\ c <= 122 THEN c - 97 + 26
  ELSE IF c >= 48 /\ c <= 57 THEN c - 48 + 52
  ELSE IF c = 43 THEN 62
  ELSE IF c = 47 THEN 63
  ELSE 64

RECURSIVE b64encode(_)
\* base64.b64encode(bytes).decode(): three bytes become four characters, a
\* last group of one or two bytes is padded with '='.
b64encode(bytes) ==
  IF Len(bytes) = 0 THEN << >>
  ELSE IF Len(bytes) = 1 THEN
    LET n == bytes[1] * 65536
    IN  << B64Char(n \div 262144), B64Char((n \div 4096) % 64), B64Pad, B64Pad >>
  ELSE IF Len(bytes) = 2 THEN
    LET n == bytes[1] * 65536 + bytes[2] * 256
    IN  << B64Char(n \div 262144), B64Char((n \div 4096) % 64),
           B64Char((n \div 64) % 64), B64Pad >>
  ELSE
    LET n == bytes[1] * 65536 + bytes[2] * 256 + bytes[3]
    IN  << B64Char(n \div 262144), B64Char((n \div 4096) % 64),
           B64Char((n \div 64) % 64), B64Char(n % 64) >>
        \o b64encode(SubSeq(bytes, 4, Len(bytes)))

\* The result of a decoding that raised (binascii.Error, UnicodeDecodeError).
DecodeError == << -2 >>

RECURSIVE a2b_base64(_, _, _, _, _, _)
\* binascii.a2b_base64 in its default, non-strict mode, as b64decode calls it:
\* characters outside the alphabet are skipped, a pad sequence that completes
\* a quad ends the parse, a dangling quad raises.
a2b_base64(s, i, quad_pos, leftchar, pads, out) ==
  IF i > Len(s) THEN (IF quad_pos # 0 THEN DecodeError ELSE out)
  ELSE IF s[i] = B64Pad THEN
    IF quad_pos >= 2 /\ quad_pos + pads + 1 >= 4 THEN out
    ELSE a2b_base64(s, i + 1, quad_pos, leftchar,
                    IF quad_pos >= 2 THEN pads + 1 ELSE pads, out)
  ELSE IF B64Val(s[i]) >= 64 THEN a2b_base64(s, i + 1, quad_pos, leftchar, pads, out)
  ELSE
    LET v == B64Val(s[i]) IN
    CASE quad_pos = 0 -> a2b_base64(s, i + 1, 1, v, 0, out)
      [] quad_pos = 1 ->
           a2b_base64(s, i + 1, 2, v % 16, 0, Append(out, leftchar * 4 + v \div 16))
      [] quad_pos = 2 ->
           a2b_base64(s, i + 1, 3, v % 4, 0, Append(out, leftchar * 16 + v \div 4))
      [] OTHER ->
           a2b_base64(s, i + 1, 0, 0, 0, Append(out, leftchar * 64 + v))

\* A UTF-8 continuation byte.
IsCont(b) == b >= 128 /\ b <= 191

RECURSIVE utf8decode(_)
\* bytes.decode(): strict UTF-8, code points out; DecodeError when the bytes
\* are not well-formed UTF-8.
utf8decode(bytes) ==
  IF bytes = DecodeError THEN DecodeError
  ELSE IF Len(bytes) = 0 THEN << >>
  ELSE
    LET b1 == bytes[1]
        n  == Len(bytes)
        width ==
          IF b1 < 128 THEN 1
          ELSE IF b1 >= 194 /\ b1 <= 223 /\ n >= 2 /\ IsCont(bytes[2]) THEN 2
          ELSE IF b1 >= 224 /\ b1 <= 239 /\ n >= 3 /\ IsCont(bytes[2]) /\ IsCont(bytes[3])
                  /\ (b1 = 224 => bytes[2] >= 160) /\ (b1 = 237 => bytes[2] <= 159) THEN 3
          ELSE IF b1 >= 240 /\ b1 <= 244 /\ n >= 4 /\ IsCont(bytes[2]) /\ IsCont(bytes[3])
                  /\ IsCont(bytes[4])
                  /\ (b1 = 240 => bytes[2] >= 144) /\ (b1 = 244 => bytes[2] <= 143) THEN 4
          ELSE 0
        cp ==
          CASE width = 1 -> b1
            [] width = 2 -> (b1 - 192) * 64 + (bytes[2] - 128)
            [] width = 3 -> (b1 - 224) * 4096 + (bytes[2] - 128) * 64 + (bytes[3] - 128)
            [] OTHER -> (b1 - 240) * 262144 + (bytes[2] - 128) * 4096
                        + (bytes[3] - 128) * 64 + (bytes[4] - 128)
        rest == IF width = 0 THEN DecodeError ELSE utf8decode(SubSeq(bytes, width + 1, n))
    IN  IF width = 0 \/ rest = DecodeError THEN DecodeError ELSE << cp >> \o rest

\* base64.b64encode(text.encode()).decode(): how a display string is stored.
\* A register_new_user that stores the name as given, as update_username does.
obfuscateRaw(text) == text

obfuscate(text) == b64encode(text)

\* base64.b64decode(token.encode()).decode(): how a stored string is read back.
reveal(token) == utf8decode(a2b_base64(token, 1, 0, 0, 0, << >>))

(***************************************************************************)
(* Bounds and input sets.                                                  *)
(***************************************************************************)

\* At most this many User rows are registered.
MaxUsers == 2

\* datetime.now() takes the values 0..MaxClock and never goes back.
MaxClock == 1
MaxLoads == 2

\* The concurrent vote_song calls of SpecConcurrent.
NumWorkers == 2

\* "al", "bob": names handed to register_new_user and user_exists.
Usernames == { <<97, 108>>, <<98, 111, 98>> }

\* "bob" and "YWw=" (the stored form of "al"): names handed to update_username.
NewUsernames == { <<98, 111, 98>>, <<89, 87, 119, 61>> }

Ips == { "1.2.3.4", "5.6.7.8" }

\* "S1", "S2".
SongIds == { <<83, 49>>, <<83, 50>> }

\* The songs handed to submit_song: S1 "T", not explicit, and S2 "U", explicit.
SongInputs ==
  { [song_id |-> <<83, 49>>, song_name |-> <<84>>, is_explicit |-> FALSE],
    [song_id |-> <<83, 50>>, song_name |-> <<85>>, is_explicit |-> TRUE] }

\* The user ids handed to the calls: those of rows that exist or may come to exist.
UserIds == 1..MaxUsers

\* The browsers that hold a session.
NumClients == 2
Clients == 1..NumClients

\* A session with no key.
EmptySession == << >>

\* config.email_domain: "k.lt".
EMAIL_DOMAIN == << 107, 46, 108, 116 >>

\* The identities the provider may hand to /authorize: given_name and email.
\* Emails "a@k.lt", "a@xk.lt", "a@k.co".
Emails ==
  { << 97, 64, 107, 46, 108, 116 >>, << 97, 64, 120, 107, 46, 108, 116 >>,
    << 97, 64, 107, 46, 99, 111 >> }

Userinfos == [ given_name : Usernames, email : Emails ]

\* self.db_type (databasewrapper.py:57): 'mysql', anything else is SQLite.
DbTypes == { "mysql", "sqlite" }

\* SQL NULL in a text column, and in a datetime column.
NULL == << -1 >>
NullTime == -1

\* ',' as CONCAT(x, ',', y) writes it.
Comma == << 44 >>

VARIABLES
  db_type,   \* self.db_type, fixed at construction
  config_loads, \* how many times load_config() has run
  schema,    \* the tables and foreign keys the store holds
  db,        \* the committed rows: Users, Songs, Song_Votes, Song_Submissions
  clock,     \* the last value datetime.now() gave
  registered,\* history: registered[user_id] is the name register_new_user was given
  renamed,   \* history: the user_ids whose row an update_username call has written
  session,   \* the Flask session of each client
  response,  \* the last response each client received
  pc,        \* SpecConcurrent: where each worker's vote_song call stands
  call       \* SpecConcurrent: each worker's call and, once it returned, its result

vars == << db_type, config_loads, schema, db, clock, registered, renamed, session, response, pc, call >>

(***************************************************************************)
(* Rows, transactions, faults.                                             *)
(*                                                                         *)
(* Users is a sequence: the engine assigns user_id 1, 2, ... in order.     *)
(* Songs is a function from song_id (the primary key) to the other         *)
(* columns.  Song_Votes and Song_Submissions have no key: each is a bag of *)
(* rows.                                                                   *)
(*                                                                         *)
(* Every method is an operator from the committed rows, the arguments and  *)
(* the storage fault met (if any) to what the call leaves: db, the         *)
(* committed rows after it; path, the return statement taken ("raise": an  *)
(* exception left the method); and the value returned.                     *)
(***************************************************************************)

\* A row whose list columns start as the empty string instead of NULL.
NewUserRowEmptyLists(encoded_username, current_time, ip) ==
  [ username |-> encoded_username,
    first_login_datetime |-> current_time,
    last_login_datetime |-> current_time,
    first_login_ip |-> ip,
    last_login_ip |-> ip,
    last_song_submission_datetime |-> -1,
    voted_songs_ids |-> << >>,
    submitted_songs_ids |-> << >> ]

\* The row register_new_user inserts (databasewrapper.py:233-238).
NewUserRow(encoded_username, current_time, ip) ==
  [ username |-> encoded_username,
    first_login_datetime |-> current_time,
    last_login_datetime |-> current_time,
    first_login_ip |-> ip,
    last_login_ip |-> ip,
    last_song_submission_datetime |-> NullTime,
    voted_songs_ids |-> NULL,
    submitted_songs_ids |-> NULL ]

\* The row submit_song inserts into Songs (databasewrapper.py:437-440).
NewSongRow(user_id, encoded_song_name, is_explicit) ==
  [ is_being_hidden |-> FALSE,
    user_id |-> user_id,
    song_name |-> encoded_song_name,
    is_explicit |-> is_explicit,
    vote_count |-> 0 ]

EmptyDb ==
  [ Users |-> << >>, Songs |-> << >>, Song_Votes |-> EmptyBag,
    Song_Submissions |-> EmptyBag ]

\* No call of a worker.
NoCall == [ user_id |-> 0, song_id |-> << >>, path |-> "" ]

\* A store with no table.
EmptySchema == [ tables |-> {}, foreign_keys |-> {} ]

\* The statements construct_mysql_database executes, in order: four CREATE
\* TABLE, then five ALTER TABLE ... ADD CONSTRAINT ... FOREIGN KEY.
MysqlStatements ==
  << [ tables |-> {"Users"}, foreign_keys |-> {} ],
     [ tables |-> {"Songs"}, foreign_keys |-> {} ],
     [ tables |-> {"Song_Votes"}, foreign_keys |-> {} ],
     [ tables |-> {"Song_Submissions"}, foreign_keys |-> {} ],
     [ tables |-> {}, foreign_keys |-> {"Songs_fk2"} ],
     [ tables |-> {}, foreign_keys |-> {"Song_Votes_fk0"} ],
     [ tables |-> {}, foreign_keys |-> {"Song_Votes_fk1"} ],
     [ tables |-> {}, foreign_keys |-> {"Song_Submissions_fk0"} ],
     [ tables |-> {}, foreign_keys |-> {"Song_Submissions_fk1"} ] >>

\* The statements construct_sqlite_database executes, in order: four CREATE
\* TABLE, the foreign keys declared inline.
SqliteStatements ==
  << [ tables |-> {"Users"}, foreign_keys |-> {} ],
     [ tables |-> {"Songs"}, foreign_keys |-> {"Songs_fk2"} ],
     [ tables |-> {"Song_Votes"},
       foreign_keys |-> {"Song_Votes_fk0", "Song_Votes_fk1"} ],
     [ tables |-> {"Song_Submissions"},
       foreign_keys |-> {"Song_Submissions_fk0", "Song_Submissions_fk1"} ] >>

\* The store after the first n of the statements ran on it.  Each is a DDL
\* statement, which the engine commits as it executes.
RECURSIVE Executed(_, _, _)
Executed(sch, statements, n) ==
  IF n = 0 THEN sch
  ELSE LET before == Executed(sch, statements, n - 1)
       IN  [ tables |-> before.tables \cup statements[n].tables,
             foreign_keys |-> before.foreign_keys \cup statements[n].foreign_keys ]

\* The faults of a construct call: on acquiring the connection or cursor, in
\* the query that lists the tables, in statement k, in the commit.
ConstructFaults(statements) ==
  { [at |-> "none", k |-> 0], [at |-> "connect", k |-> 0],
    [at |-> "inspect", k |-> 0], [at |-> "commit", k |-> 0] }
  \cup { [at |-> "statement", k |-> k] : k \in DOMAIN statements }

\* The body shared by the two construct functions: neither has a try, so
\* every fault leaves the function as an exception.  Value 1: a table
\* exists already; value 0: the statements ran.
Construct(sch, statements, fault) ==
  CASE fault.at \in {"connect", "inspect"} ->
         [schema |-> sch, path |-> "raise", value |-> -1]
    [] sch.tables # {} -> [schema |-> sch, path |-> "already_exists", value |-> 1]
    [] fault.at = "statement" ->
         [schema |-> Executed(sch, statements, fault.k - 1), path |-> "raise",
          value |-> -1]
    [] fault.at = "commit" ->
         [schema |-> Executed(sch, statements, Len(statements)), path |-> "raise",
          value |-> -1]
    [] OTHER ->
         [schema |-> Executed(sch, statements, Len(statements)), path |-> "success",
          value |-> 0]

\* construct_mysql_database(self).
ConstructMysqlDatabase(sch, fault) == Construct(sch, MysqlStatements, fault)

\* How construct_sqlite_database is called.  Its one parameter is db_file and
\* it has no self: called on the class with a file name ("function") it works
\* on that file; called on a wrapper ("method") the wrapper is passed as
\* db_file and sqlite3.connect raises TypeError.
CallForms == {"function", "method"}

\* construct_sqlite_database(db_file).  It never commits explicitly, so it has
\* no commit to fault.
ConstructSqliteDatabase(sch, form, fault) ==
  IF form = "method"
  THEN [schema |-> sch, path |-> "raise", value |-> -1]
  ELSE Construct(sch, SqliteStatements, fault)

construct_mysql_database ==
  \E fault \in ConstructFaults(MysqlStatements) :
    /\ db_type = "mysql"
    /\ schema' = ConstructMysqlDatabase(schema, fault).schema
    /\ UNCHANGED << db_type, config_loads, session, response, db, clock, registered, renamed, pc, call >>

construct_sqlite_database(form) ==
  \E fault \in ConstructFaults(SqliteStatements) \ {[at |-> "commit", k |-> 0]} :
    /\ db_type = "sqlite"
    /\ schema' = ConstructSqliteDatabase(schema, form, fault).schema
    /\ UNCHANGED << db_type, config_loads, session, response, db, clock, registered, renamed, pc, call >>

\* The store once its construct function has run on it without fault.
Constructed ==
  IF db_type = "mysql"
  THEN ConstructMysqlDatabase(EmptySchema, [at |-> "none", k |-> 0]).schema
  ELSE ConstructSqliteDatabase(EmptySchema, "function", [at |-> "none", k |-> 0]).schema

\* A wrapper over a store on which no construct function has run yet.
InitEmpty ==
  /\ db_type \in DbTypes
  /\ config_loads = 1
  /\ schema = EmptySchema
  /\ db = EmptyDb
  /\ clock = 0
  /\ registered = << >>
  /\ renamed = {}
  /\ session = [c \in Clients |-> EmptySession]
  /\ response = [c \in Clients |-> "none"]
  /\ pc = [w \in 1..NumWorkers |-> "idle"]
  /\ call = [w \in 1..NumWorkers |-> NoCall]

Init ==
  /\ db_type \in DbTypes
  /\ config_loads = 1
  /\ schema = Constructed
  /\ db = EmptyDb
  /\ clock = 0
  /\ registered = << >>
  /\ renamed = {}
  /\ session = [c \in Clients |-> EmptySession]
  /\ response = [c \in Clients |-> "none"]
  /\ pc = [w \in 1..NumWorkers |-> "idle"]
  /\ call = [w \in 1..NumWorkers |-> NoCall]

\* datetime.now(): the values a call may read, given the last one read.
Now == { t \in clock..(clock + 1) : t <= MaxClock }

\* datetime.now() when every call falls in one tick of the clock.
SameTick == { clock }

\* A transaction's end: commit makes the working rows the committed ones,
\* rollback leaves the committed rows as they were.
Commit(committed, working) == working
\* A rollback that does not undo the statements already executed.
RollbackKeepsWrites(committed, working) == working
Rollback(committed, working) == committed

\* Whether the engine checks the declared foreign keys.  MySQL adds them with
\* ALTER TABLE and checks them; SQLite declares them inline but checks them only
\* under PRAGMA foreign_keys = ON, which no connection of the wrapper sets.
ForeignKeysEnforcedOn(engine) == engine = "mysql"
ForeignKeysEnforced == ForeignKeysEnforcedOn(db_type)

UserRowExists(d, user_id) == user_id \in DOMAIN d.Users
SongRowExists(d, song_id) == song_id \in DOMAIN d.Songs

\* The storage faults of a method with one statement: on acquiring the
\* connection or cursor, in execute, in commit.
UpdateFaults == {"none", "connect", "execute", "commit"}
QueryFaults == {"none", "connect", "execute"}

(***************************************************************************)
(* User repository.                                                        *)
(***************************************************************************)

\* INSERT INTO Users ...: the engine assigns the next user_id.
InsertUser(d, encoded_username, current_time, ip) ==
  [d EXCEPT !.Users = Append(@, NewUserRow(encoded_username, current_time, ip))]

\* SELECT user_id FROM Users WHERE username = ?
SelectUserByName(d, encoded_username) ==
  { i \in DOMAIN d.Users : d.Users[i].username = encoded_username }

\* A register_new_user that refuses a name that is stored already.
RegisterNewUserUnique(d, username, ip, current_time, fault) ==
  LET encoded_username == obfuscate(username)
      working == InsertUser(d, encoded_username, current_time, ip)
  IN  CASE fault = "connect" -> [db |-> d, path |-> "raise", value |-> 0]
        [] fault \in {"execute", "commit"} \/ SelectUserByName(d, encoded_username) # {} ->
             [db |-> Rollback(d, d), path |-> "except", value |-> -1]
        [] OTHER -> [db |-> Commit(d, working), path |-> "return",
                     value |-> Len(working.Users)]

\* register_new_user(username, ip).  A fault on acquiring the connection or
\* cursor is outside the try and leaves the method as an exception; a fault in
\* execute or commit is caught, rolled back and answered with -1.
RegisterNewUser(d, username, ip, current_time, fault) ==
  LET encoded_username == obfuscate(username)
      working == InsertUser(d, encoded_username, current_time, ip)
  IN  CASE fault = "connect" -> [db |-> d, path |-> "raise", value |-> 0]
        [] fault = "execute" -> [db |-> Rollback(d, d), path |-> "except", value |-> -1]
        [] fault = "commit" -> [db |-> Rollback(d, working), path |-> "except", value |-> -1]
        [] OTHER -> [db |-> Commit(d, working), path |-> "return",
                     value |-> Len(working.Users)]

register_new_user(username, ip, current_time) ==
  \E fault \in UpdateFaults :
    LET r == RegisterNewUser(db, username, ip, current_time, fault)
    IN  /\ Len(db.Users) < MaxUsers
        /\ db' = r.db
        /\ clock' = current_time
        /\ registered' = IF r.path = "return" THEN Append(registered, username)
                         ELSE registered
        /\ UNCHANGED << db_type, config_loads, session, response, schema, renamed, pc, call >>

\* A user_exists whose query runs outside the try, so that a fault raises.
UserExistsUnguarded(d, username, fault) ==
  IF fault # "none"
  THEN [path |-> "raise", value |-> TRUE]
  ELSE [path |-> "return", value |-> SelectUserByName(d, obfuscate(username)) # {}]

\* user_exists(username): the whole body is inside the try; any fault is False.
UserExists(d, username, fault) ==
  IF fault # "none"
  THEN [path |-> "except", value |-> FALSE]
  ELSE [path |-> "return", value |-> SelectUserByName(d, obfuscate(username)) # {}]

user_exists(username) ==
  \E fault \in QueryFaults :
    /\ UserExists(db, username, fault).path \in {"return", "except"}
    /\ UNCHANGED vars

\* The dict get_user_details builds from a row (databasewrapper.py:327-337).
UserDetails(d, user_id) ==
  LET user == d.Users[user_id]
  IN  [ user_id |-> user_id,
        username |-> reveal(user.username),
        first_login_datetime |-> user.first_login_datetime,
        last_login_datetime |-> user.last_login_datetime,
        first_login_ip |-> user.first_login_ip,
        last_login_ip |-> user.last_login_ip,
        last_song_submission_datetime |-> user.last_song_submission_datetime,
        voted_songs_ids |-> user.voted_songs_ids,
        submitted_songs_ids |-> user.submitted_songs_ids ]

\* get_user_details(user_id): there is no try, so a fault, or a stored name
\* that b64decode or decode rejects, leaves the method as an exception.
\* path "none": the method returned None.
GetUserDetails(d, user_id, fault) ==
  IF fault # "none" THEN [path |-> "raise", value |-> << >>]
  ELSE IF ~UserRowExists(d, user_id) THEN [path |-> "none", value |-> << >>]
  ELSE IF reveal(d.Users[user_id].username) = DecodeError
       THEN [path |-> "raise", value |-> << >>]
  ELSE [path |-> "return", value |-> UserDetails(d, user_id)]

get_user_details(user_id) ==
  \E fault \in QueryFaults :
    /\ GetUserDetails(db, user_id, fault).path \in {"return", "none", "raise"}
    /\ UNCHANGED vars

\* An update that also overwrites the first login.
SetUserLoginAndFirst(d, user_id, current_time, ip) ==
  IF user_id \in DOMAIN d.Users
  THEN [d EXCEPT !.Users[user_id].last_login_datetime = current_time,
                 !.Users[user_id].last_login_ip = ip,
                 !.Users[user_id].first_login_datetime = current_time,
                 !.Users[user_id].first_login_ip = ip]
  ELSE d

\* UPDATE Users SET last_login_datetime = ?, last_login_ip = ? WHERE user_id = ?
SetUserLogin(d, user_id, current_time, ip) ==
  IF UserRowExists(d, user_id)
  THEN [d EXCEPT !.Users[user_id].last_login_datetime = current_time,
                 !.Users[user_id].last_login_ip = ip]
  ELSE d

\* An update_user_login_info that first checks that the row exists and fails
\* when it does not.
UpdateUserLoginInfoChecked(d, user_id, ip, current_time, fault) ==
  LET working == SetUserLogin(d, user_id, current_time, ip)
  IN  CASE fault = "connect" -> [db |-> d, path |-> "raise", value |-> FALSE]
        [] fault = "execute" \/ user_id \notin DOMAIN d.Users ->
             [db |-> Rollback(d, d), path |-> "except", value |-> FALSE]
        [] fault = "commit" ->
             [db |-> Rollback(d, working), path |-> "except", value |-> FALSE]
        [] OTHER -> [db |-> Commit(d, working), path |-> "return", value |-> TRUE]

\* update_user_login_info(user_id, ip): no check that the row exists.
UpdateUserLoginInfo(d, user_id, ip, current_time, fault) ==
  LET working == SetUserLogin(d, user_id, current_time, ip)
  IN  CASE fault = "connect" -> [db |-> d, path |-> "raise", value |-> FALSE]
        [] fault = "execute" -> [db |-> Rollback(d, d), path |-> "except", value |-> FALSE]
        [] fault = "commit" ->
             [db |-> Rollback(d, working), path |-> "except", value |-> FALSE]
        [] OTHER -> [db |-> Commit(d, working), path |-> "return", value |-> TRUE]

update_user_login_info(user_id, ip, current_time) ==
  \E fault \in UpdateFaults :
    /\ db' = UpdateUserLoginInfo(db, user_id, ip, current_time, fault).db
    /\ clock' = current_time
    /\ UNCHANGED << db_type, config_loads, session, response, schema, registered, renamed, pc, call >>

\* UPDATE Users SET username = ? WHERE user_id = ?, with new_username as given.
SetUsername(d, user_id, new_username) ==
  IF UserRowExists(d, user_id)
  THEN [d EXCEPT !.Users[user_id].username = new_username]
  ELSE d

\* update_username(user_id, new_username).  SQLite: as the other updates.
\* MySQL: commit and rollback are called on the cursor, which has neither, so
\* after the UPDATE the try raises AttributeError, the except raises it again
\* from cur.rollback(), and the statement is never committed.
UpdateUsernameOn(engine, d, user_id, new_username, fault) ==
  LET working == SetUsername(d, user_id, new_username)
  IN  IF engine = "mysql"
      THEN [db |-> Rollback(d, working), path |-> "raise", value |-> FALSE]
      ELSE CASE fault = "connect" -> [db |-> d, path |-> "raise", value |-> FALSE]
             [] fault = "execute" ->
                  [db |-> Rollback(d, d), path |-> "except", value |-> FALSE]
             [] fault = "commit" ->
                  [db |-> Rollback(d, working), path |-> "except", value |-> FALSE]
             [] OTHER -> [db |-> Commit(d, working), path |-> "return", value |-> TRUE]

UpdateUsername(d, user_id, new_username, fault) ==
  UpdateUsernameOn(db_type, d, user_id, new_username, fault)

update_username(user_id, new_username) ==
  \E fault \in UpdateFaults :
    LET r == UpdateUsername(db, user_id, new_username, fault)
    IN  /\ db' = r.db
        /\ renamed' = IF r.path = "return" /\ UserRowExists(db, user_id)
                      THEN renamed \cup {user_id} ELSE renamed
        /\ UNCHANGED << db_type, config_loads, session, response, schema, clock, registered, pc, call >>

(***************************************************************************)
(* Song repository.                                                        *)
(***************************************************************************)

\* CASE WHEN list IS NULL THEN ? ELSE CONCAT(list, ',', ?) END
AppendId(list, song_id) ==
  IF list = NULL THEN song_id ELSE list \o Comma \o song_id

\* INSERT INTO Songs (...) VALUES (?, FALSE, ?, ?, ?, 0)
InsertSong(d, song_id, user_id, encoded_song_name, is_explicit) ==
  [d EXCEPT !.Songs =
     [k \in DOMAIN @ \cup {song_id} |->
        IF k = song_id THEN NewSongRow(user_id, encoded_song_name, is_explicit) ELSE @[k]]]

\* Songs without its primary key: only the foreign key can refuse the insert.
InsertSongRefusedForeignKeyOnly(engine, d, song_id, user_id) ==
  ForeignKeysEnforcedOn(engine) /\ ~UserRowExists(d, user_id)

\* The insert is refused: song_id is the primary key of Songs, and user_id is a
\* foreign key to Users where the engine checks it.
InsertSongRefusedOn(engine, d, song_id, user_id) ==
  \/ SongRowExists(d, song_id)
  \/ ForeignKeysEnforcedOn(engine) /\ ~UserRowExists(d, user_id)

InsertSongRefused(d, song_id, user_id) == InsertSongRefusedOn(db_type, d, song_id, user_id)

\* A submit_song whose second statement writes no row.
InsertSubmissionDropped(d, user_id, song_id, current_time) == d

\* INSERT INTO Song_Submissions (user_id, song_id, submission_datetime)
InsertSubmission(d, user_id, song_id, current_time) ==
  [d EXCEPT !.Song_Submissions =
     @ (+) SetToBag({[user_id |-> user_id, song_id |-> song_id,
                      submission_datetime |-> current_time]})]

\* UPDATE Users SET last_song_submission_datetime = ?, submitted_songs_ids = CASE ...
SetUserSubmitted(d, user_id, song_id, current_time) ==
  IF UserRowExists(d, user_id)
  THEN [d EXCEPT !.Users[user_id].last_song_submission_datetime = current_time,
                 !.Users[user_id].submitted_songs_ids = AppendId(@, song_id)]
  ELSE d

\* The rows of submit_song's transaction after its first n statements.
SubmitWorking(d, n, user_id, song_id, encoded_song_name, is_explicit, current_time) ==
  LET d1 == InsertSong(d, song_id, user_id, encoded_song_name, is_explicit)
      d2 == InsertSubmission(d1, user_id, song_id, current_time)
      d3 == SetUserSubmitted(d2, user_id, song_id, current_time)
  IN  CASE n = 0 -> d [] n = 1 -> d1 [] n = 2 -> d2 [] OTHER -> d3

SubmitFaults ==
  {"none", "connect", "insert_song", "insert_submission", "update_user", "commit"}

\* The statements of submit_song that ran before `fault` stopped it.
SubmitDone(fault) ==
  CASE fault = "insert_song" -> 0
    [] fault = "insert_submission" -> 1
    [] fault = "update_user" -> 2
    [] OTHER -> 3

\* submit_song(user_id, song_id, song_name, is_explicit): three statements and
\* a commit in one try; any exception rolls back and returns False.  The
\* connection or cursor is acquired outside the try.
SubmitSongOn(engine, d, user_id, song_id, song_name, is_explicit, current_time, fault) ==
  LET encoded_song_name == obfuscate(song_name)
      refused == InsertSongRefusedOn(engine, d, song_id, user_id)
      done == IF refused THEN 0 ELSE SubmitDone(fault)
      working == SubmitWorking(d, done, user_id, song_id, encoded_song_name,
                               is_explicit, current_time)
  IN  CASE fault = "connect" -> [db |-> d, path |-> "raise", value |-> FALSE]
        [] fault \notin {"none", "connect"} \/ refused ->
             [db |-> Rollback(d, working), path |-> "except", value |-> FALSE]
        [] OTHER -> [db |-> Commit(d, working), path |-> "return", value |-> TRUE]

SubmitSong(d, user_id, song_id, song_name, is_explicit, current_time, fault) ==
  SubmitSongOn(db_type, d, user_id, song_id, song_name, is_explicit, current_time, fault)

submit_song(user_id, song_id, song_name, is_explicit, current_time) ==
  \E fault \in SubmitFaults :
    /\ db' = SubmitSong(db, user_id, song_id, song_name, is_explicit,
                        current_time, fault).db
    /\ clock' = current_time
    /\ UNCHANGED << db_type, config_loads, session, response, schema, registered, renamed, pc, call >>

\* SELECT ... FROM Songs s JOIN Users u ON s.user_id = u.user_id: the song_ids
\* of the rows of the join.
JoinSongsUsers(d) == { k \in DOMAIN d.Songs : UserRowExists(d, d.Songs[k].user_id) }

\* A row of the join that the loop cannot decode: b64decode(...).decode() raises.
Undecodable(d, k) ==
  \/ reveal(d.Songs[k].song_name) = DecodeError
  \/ reveal(d.Users[d.Songs[k].user_id].username) = DecodeError

\* A listing that hands out the owner's name as stored, without decoding it.
SongInfoRawName(d, k) ==
  LET song == d.Songs[k]
      u == d.Users[song.user_id]
  IN  [ is_being_hidden |-> song.is_being_hidden,
        user_id |-> song.user_id,
        song_name |-> reveal(song.song_name),
        is_explicit |-> song.is_explicit,
        vote_count |-> song.vote_count,
        submitter_username |-> u.username,
        submitter_last_login |-> u.last_login_datetime,
        submitter_last_ip |-> u.last_login_ip ]

\* result[song_id] as get_songs_and_info builds it (databasewrapper.py:525-534).
SongInfo(d, k) ==
  LET song == d.Songs[k]
      u == d.Users[song.user_id]
  IN  [ is_being_hidden |-> song.is_being_hidden,
        user_id |-> song.user_id,
        song_name |-> reveal(song.song_name),
        is_explicit |-> song.is_explicit,
        vote_count |-> song.vote_count,
        submitter_username |-> reveal(u.username),
        submitter_last_login |-> u.last_login_datetime,
        submitter_last_ip |-> u.last_login_ip ]

\* get_songs_and_info(): the whole body is inside the try.  None when the join
\* is empty (path "none"), and None when anything raises, a decoding included.
GetSongsAndInfo(d, fault) ==
  LET songs == JoinSongsUsers(d)
  IN  IF fault # "none" THEN [path |-> "except", value |-> << >>]
      ELSE IF songs = {} THEN [path |-> "none", value |-> << >>]
      ELSE IF \E k \in songs : Undecodable(d, k) THEN [path |-> "except", value |-> << >>]
      ELSE [path |-> "return", value |-> [k \in songs |-> SongInfo(d, k)]]

get_songs_and_info ==
  \E fault \in QueryFaults :
    /\ GetSongsAndInfo(db, fault).path \in {"return", "none", "except"}
    /\ UNCHANGED vars

(***************************************************************************)
(* Voting engine.                                                          *)
(***************************************************************************)

\* A check query that never finds a row.
CheckVoteFindsNothing(d, user_id, song_id) == FALSE

\* SELECT * FROM Song_Votes WHERE user_id = ? AND song_id = ?, then fetchone():
\* whether a row came back.
CheckVote(d, user_id, song_id) ==
  \E row \in BagToSet(d.Song_Votes) : row.user_id = user_id /\ row.song_id = song_id

\* INSERT INTO Song_Votes (user_id, song_id, vote_datetime)
InsertVote(d, user_id, song_id, current_time) ==
  [d EXCEPT !.Song_Votes =
     @ (+) SetToBag({[user_id |-> user_id, song_id |-> song_id,
                      vote_datetime |-> current_time]})]

\* Both columns of Song_Votes are foreign keys where the engine checks them.
InsertVoteRefusedOn(engine, d, user_id, song_id) ==
  ForeignKeysEnforcedOn(engine) /\ (~UserRowExists(d, user_id) \/ ~SongRowExists(d, song_id))

InsertVoteRefused(d, user_id, song_id) == InsertVoteRefusedOn(db_type, d, user_id, song_id)

\* An update that takes one from the counter instead of adding one.
DecrementVoteCount(d, song_id) ==
  IF song_id \in DOMAIN d.Songs
  THEN [d EXCEPT !.Songs[song_id].vote_count = @ - 1]
  ELSE d

\* UPDATE Songs SET vote_count = vote_count + 1 WHERE song_id = ?
IncrementVoteCount(d, song_id) ==
  IF SongRowExists(d, song_id)
  THEN [d EXCEPT !.Songs[song_id].vote_count = @ + 1]
  ELSE d

\* An update that overwrites the list of voted songs instead of appending to it.
SetUserVotedOverwrites(d, user_id, song_id) ==
  IF UserRowExists(d, user_id)
  THEN [d EXCEPT !.Users[user_id].voted_songs_ids = song_id]
  ELSE d

\* UPDATE Users SET voted_songs_ids = CASE ... WHERE user_id = ?
SetUserVoted(d, user_id, song_id) ==
  IF UserRowExists(d, user_id)
  THEN [d EXCEPT !.Users[user_id].voted_songs_ids = AppendId(@, song_id)]
  ELSE d

\* The rows of vote_song's transaction after its first n write statements.
VoteWorking(d, n, user_id, song_id, current_time) ==
  LET d1 == InsertVote(d, user_id, song_id, current_time)
      d2 == IncrementVoteCount(d1, song_id)
      d3 == SetUserVoted(d2, user_id, song_id)
  IN  CASE n = 0 -> d [] n = 1 -> d1 [] n = 2 -> d2 [] OTHER -> d3

\* The faults of vote_song's write statements and commit.
VoteWriteFaults == {"insert_vote", "update_song", "update_user", "commit"}

\* The faults of vote_song before its first write: the connection cannot be
\* acquired, neither in the try nor again in the except clause ("connect");
\* it cannot be acquired in the try alone ("connect_once"); the check query
\* faults ("check").
VoteCheckFaults == {"connect", "connect_once", "check"}

VoteFaults == {"none"} \cup VoteCheckFaults \cup VoteWriteFaults

\* The write statements of vote_song that ran before `fault` stopped it.
VoteDone(fault) ==
  CASE fault = "insert_vote" -> 0
    [] fault = "update_song" -> 1
    [] fault = "update_user" -> 2
    [] OTHER -> 3

\* A vote_song that answers True when the vote is already there.
VoteReturnTrueWhenAlreadyVoted(path) ==
  CASE path = "accepted" -> TRUE
    [] path = "already_voted" -> TRUE
    [] OTHER -> FALSE

\* What vote_song returns at each of its return statements: True after the
\* commit, False when the check finds a row, False from the except clause.
VoteReturn(path) ==
  CASE path = "accepted" -> TRUE
    [] path = "already_voted" -> FALSE
    [] OTHER -> FALSE

\* A vote_song without the early return on an existing vote.
VoteCheckNoEarlyReturn(engine, d, user_id, song_id, fault) ==
  CASE fault = "connect" -> "raise"
    [] fault = "connect_once" -> IF engine = "mysql" THEN "failure" ELSE "raise"
    [] fault = "check" -> "failure"
    [] OTHER -> "write"

\* The first half of vote_song, to the check of the existing vote: "write"
\* when the method goes on to its insert, else the return statement taken.
\* A fault lands in the except clause, which rolls back on the connection:
\* SQLite's conn is unbound when connect itself failed, so the clause raises;
\* MySQL's is acquired again by self.mysql.connection.
VoteCheckOn(engine, d, user_id, song_id, fault) ==
  CASE fault = "connect" -> "raise"
    [] fault = "connect_once" -> IF engine = "mysql" THEN "failure" ELSE "raise"
    [] fault = "check" -> "failure"
    [] OTHER -> IF CheckVote(d, user_id, song_id) THEN "already_voted" ELSE "write"

VoteCheck(d, user_id, song_id, fault) == VoteCheckOn(db_type, d, user_id, song_id, fault)

\* The second half of vote_song, from the insert to the return: the rows it
\* leaves committed and the return statement it takes.
VoteWriteOn(engine, d, user_id, song_id, current_time, fault) ==
  LET refused == InsertVoteRefusedOn(engine, d, user_id, song_id)
      done == IF refused THEN 0 ELSE VoteDone(fault)
      working == VoteWorking(d, done, user_id, song_id, current_time)
  IN  IF fault \in VoteWriteFaults \/ refused
      THEN [db |-> Rollback(d, working), path |-> "failure"]
      ELSE [db |-> Commit(d, working), path |-> "accepted"]

VoteWrite(d, user_id, song_id, current_time, fault) ==
  VoteWriteOn(db_type, d, user_id, song_id, current_time, fault)

\* vote_song(user_id, song_id), run with no other call in between.
VoteSongOn(engine, d, user_id, song_id, current_time, fault) ==
  LET checked == VoteCheckOn(engine, d, user_id, song_id, fault)
      written == VoteWriteOn(engine, d, user_id, song_id, current_time, fault)
  IN  IF checked = "write"
      THEN [db |-> written.db, path |-> written.path, value |-> VoteReturn(written.path)]
      ELSE [db |-> d, path |-> checked, value |-> VoteReturn(checked)]

VoteSong(d, user_id, song_id, current_time, fault) ==
  VoteSongOn(db_type, d, user_id, song_id, current_time, fault)

vote_song(user_id, song_id, current_time) ==
  \E fault \in VoteFaults :
    /\ db' = VoteSong(db, user_id, song_id, current_time, fault).db
    /\ clock' = current_time
    /\ UNCHANGED << db_type, config_loads, session, response, schema, registered, renamed, pc, call >>

(***************************************************************************)
(* Concurrent vote_song calls.  Each worker serves one request.  Between a  *)
(* call's check and its insert the storage engine lets other calls run:    *)
(* the check is a plain SELECT and takes no lock that outlives it.  The    *)
(* insert, the two updates and the commit are one transaction, which the   *)
(* engine runs as a unit against the rows committed by then.               *)
(***************************************************************************)

\* vote_song up to its check of the existing vote.
vote_song_check(w, user_id, song_id) ==
  \E fault \in {"none"} \cup VoteCheckFaults :
    LET checked == VoteCheck(db, user_id, song_id, fault)
    IN  /\ pc[w] = "idle"
        /\ pc' = [pc EXCEPT ![w] = IF checked = "write" THEN "write" ELSE "done"]
        /\ call' = [call EXCEPT ![w] = [user_id |-> user_id, song_id |-> song_id,
                                        path |-> checked]]
        /\ UNCHANGED << db_type, config_loads, session, response, schema, db, clock, registered, renamed >>

\* vote_song from its insert to its return.
vote_song_write(w, current_time) ==
  \E fault \in {"none"} \cup VoteWriteFaults :
    LET written == VoteWrite(db, call[w].user_id, call[w].song_id, current_time, fault)
    IN  /\ pc[w] = "write"
        /\ db' = written.db
        /\ clock' = current_time
        /\ pc' = [pc EXCEPT ![w] = "done"]
        /\ call' = [call EXCEPT ![w].path = written.path]
        /\ UNCHANGED << db_type, config_loads, session, response, schema, registered, renamed >>

(***************************************************************************)
(* Concurrent sign-ins of callers that pre-check: each worker calls        *)
(* user_exists(n) and, when the answer is False, register_new_user(n, ip). *)
(* Other workers' calls run between the two.                               *)
(***************************************************************************)

\* The worker's user_exists(username) call.
worker_user_exists(w, username) ==
  \E fault \in QueryFaults :
    LET r == UserExists(db, username, fault)
    IN  /\ pc[w] = "idle"
        /\ pc' = [pc EXCEPT ![w] = IF r.value THEN "done" ELSE "register"]
        /\ call' = [call EXCEPT ![w] = [username |-> username, user_id |-> 0,
                                        path |-> "exists"]]
        /\ UNCHANGED << db_type, config_loads, session, response, schema, db, clock, registered, renamed >>

\* The worker's register_new_user(username, ip) call, after its pre-check.
worker_register_new_user(w, ip, current_time) ==
  \E fault \in UpdateFaults :
    LET r == RegisterNewUser(db, call[w].username, ip, current_time, fault)
    IN  /\ pc[w] = "register"
        /\ Len(db.Users) < MaxUsers
        /\ db' = r.db
        /\ clock' = current_time
        /\ registered' = IF r.path = "return" THEN Append(registered, call[w].username)
                         ELSE registered
        /\ pc' = [pc EXCEPT ![w] = "done"]
        /\ call' = [call EXCEPT ![w].user_id = r.value, ![w].path = r.path]
        /\ UNCHANGED << db_type, config_loads, session, response, schema, renamed >>

(***************************************************************************)
(* Connections and cursors.  Every method acquires one connection and one  *)
(* cursor.  On MySQL the connection belongs to the application context in  *)
(* which self.mysql.connection is first read and is closed when that       *)
(* context ends; a cursor is closed by cur.close().  On SQLite the with    *)
(* block of sqlite3.connect commits or rolls back and does not close; the  *)
(* wrapper calls neither conn.close() nor cur.close(), so both stay open   *)
(* until the interpreter collects the objects.                             *)
(***************************************************************************)

Methods ==
  { "register_new_user", "user_exists", "get_user_details", "update_user_login_info",
    "update_username", "submit_song", "get_songs_and_info", "vote_song" }

\* When the interpreter finalizes the objects a call leaves unreferenced: as
\* the call returns, or at some later collection.
Collectors == {"at_return", "later"}

\* MySQL: the connection was acquired inside the with self.app.app_context()
\* block of the method, which closes it on exit.  update_username reads
\* self.mysql.connection before the block, and the except clause of vote_song
\* reads it after the block: that connection is the caller's context's.
ConnectionScoped(engine, method, path) ==
  /\ engine = "mysql"
  /\ method # "update_username"
  /\ ~(method = "vote_song" /\ path = "failure")

\* MySQL: the return statement taken comes after a cur.close().
CursorClosed(engine, method, path) ==
  /\ engine = "mysql"
  /\ \/ method \in {"register_new_user", "update_user_login_info", "submit_song"}
          /\ path \in {"return", "except"}
     \/ method = "user_exists" /\ path = "return"
     \/ method \in {"get_user_details", "get_songs_and_info"}
          /\ path \in {"return", "none"}
     \/ method = "vote_song" /\ path \in {"accepted", "already_voted"}

\* What a call that returned at `path` leaves open.  A cursor goes with its
\* connection; an object of the call's own (every cursor, SQLite's
\* connection) goes when the interpreter finalizes it.
StillOpen(engine, method, path, collector) ==
  LET connection == IF engine = "mysql"
                    THEN ~ConnectionScoped(engine, method, path)
                    ELSE collector = "later"
      cursor == /\ ~CursorClosed(engine, method, path)
                /\ ~ConnectionScoped(engine, method, path)
                /\ collector = "later"
  IN  (IF connection THEN {"connection"} ELSE {}) \cup
      (IF cursor THEN {"cursor"} ELSE {})

(***************************************************************************)
(* Web layer (src/main.py).  A session is a mapping from its keys to their *)
(* values.  main.py builds its wrapper with db_type 'mysql'.               *)
(***************************************************************************)

\* A test that takes every text to end with the suffix.
endswithAnything(text, suffix) == TRUE

\* str.endswith
endswith(text, suffix) ==
  /\ Len(suffix) <= Len(text)
  /\ SubSeq(text, Len(text) - Len(suffix) + 1, Len(text)) = suffix

\* session.update(mapping)
SessionUpdate(sess, mapping) ==
  [ k \in DOMAIN sess \cup DOMAIN mapping |->
      IF k \in DOMAIN mapping THEN mapping[k] ELSE sess[k] ]

\* session.pop(key, None)
SessionPop(sess, key) == [ k \in DOMAIN sess \ {key} |-> sess[k] ]

\* The user_id that WHERE user_id = ? compares with when the parameter is a
\* text: its value as a decimal number, or 0, which is no row's user_id.
RECURSIVE Decimal(_)
Decimal(text) ==
  IF text = << >> THEN 0
  ELSE LET last == text[Len(text)]
       IN  IF last < 48 \/ last > 57 THEN -1
           ELSE LET front == Decimal(SubSeq(text, 1, Len(text) - 1))
                IN  IF front < 0 THEN -1 ELSE 10 * front + (last - 48)

NameAsUserId(name) ==
  IF name = << >> \/ Decimal(name) < 0 THEN 0 ELSE Decimal(name)

\* The session /authorize leaves for an identity of the configured domain.
SignedIn(sess, userinfo) ==
  SessionUpdate(SessionUpdate(sess, [_permanent |-> TRUE]),
                [user_info |-> userinfo, logged_in |-> TRUE])

\* authorize().  For an email of the domain the session is marked logged in;
\* then, when user_exists(given_name) is True, register_new_user is called on
\* the class with two arguments and raises TypeError; when it is False,
\* update_user_login_info is called with the name in the place of user_id.
\* An exception gives response 500; whether the session written before it
\* is saved depends on how the application propagates exceptions (`saved`).
Authorize(d, sess, userinfo, remote_addr, current_time, fault, saved) ==
  LET exists == UserExists(d, userinfo.given_name,
                           IF fault = "exists" THEN "execute" ELSE "none").value
      login == UpdateUserLoginInfo(d, NameAsUserId(userinfo.given_name), remote_addr,
                                   current_time,
                                   IF fault \in UpdateFaults THEN fault ELSE "none")
      signed == SignedIn(sess, userinfo)
  IN  IF ~endswith(userinfo.email, EMAIL_DOMAIN)
      THEN [db |-> d, session |-> SessionUpdate(sess, [login_message |-> "Bad email."]),
            response |-> "302 /", path |-> "bad_email"]
      ELSE IF exists \/ login.path = "raise"
      THEN [db |-> d, session |-> IF saved THEN signed ELSE sess,
            response |-> "500", path |-> "raise"]
      ELSE [db |-> login.db, session |-> signed, response |-> "302 /",
            path |-> "return"]

AuthorizeFaults == {"none", "exists", "connect", "execute", "commit"}

authorize(c, userinfo, remote_addr, current_time) ==
  \E fault \in AuthorizeFaults, saved \in BOOLEAN :
    LET r == Authorize(db, session[c], userinfo, remote_addr, current_time, fault, saved)
    IN  /\ db' = r.db
        /\ clock' = current_time
        /\ session' = [session EXCEPT ![c] = r.session]
        /\ response' = [response EXCEPT ![c] = r.response]
        /\ UNCHANGED << db_type, config_loads, schema, registered, renamed, pc, call >>

\* index(): the login page for a session without logged_in, with its
\* login_message; else login_message is dropped and the index page rendered.
Index(sess) ==
  IF "logged_in" \notin DOMAIN sess
  THEN [session |-> sess, response |-> "login.html"]
  ELSE [session |-> SessionPop(sess, "login_message"), response |-> "index.html"]

index(c) ==
  /\ session' = [session EXCEPT ![c] = Index(session[c]).session]
  /\ response' = [response EXCEPT ![c] = Index(session[c]).response]
  /\ UNCHANGED << db_type, config_loads, schema, db, clock, registered, renamed, pc, call >>

\* abort(code): raises the HTTP exception of an error code; for any other code
\* it raises LookupError, which the application answers with 500.
HttpErrors == {"400", "401", "403", "404", "405", "500"}
Abort(code) == IF code \in HttpErrors THEN code ELSE "500"

\* A decorator that runs the wrapped handler whatever the session holds.
login_not_required(sess, handled) == handled

\* decorators.login_required: the wrapped handler runs only with logged_in in
\* the session; else a 307 redirect to "/".
login_required(sess, handled) ==
  IF "logged_in" \notin DOMAIN sess
  THEN [session |-> sess, response |-> "307 /"]
  ELSE handled

\* logout(): session.clear() and the login page.
Logout(sess) ==
  login_required(sess, [session |-> EmptySession, response |-> "login.html"])

logout(c) ==
  /\ session' = [session EXCEPT ![c] = Logout(session[c]).session]
  /\ response' = [response EXCEPT ![c] = Logout(session[c]).response]
  /\ UNCHANGED << db_type, config_loads, schema, db, clock, registered, renamed, pc, call >>

\* submit_song(), the route: abort(200) when session.get("logged_in") is
\* true; else the view returns None, which the application answers with 500.
SubmitSongView(sess) ==
  login_required(sess,
    IF "logged_in" \in DOMAIN sess /\ sess["logged_in"] = TRUE
    THEN [session |-> sess, response |-> Abort("200")]
    ELSE [session |-> sess, response |-> "500"])

api_submit_song(c) ==
  /\ session' = [session EXCEPT ![c] = SubmitSongView(session[c]).session]
  /\ response' = [response EXCEPT ![c] = SubmitSongView(session[c]).response]
  /\ UNCHANGED << db_type, config_loads, schema, db, clock, registered, renamed, pc, call >>

\* Python values of the admin route: a str (hashed: the text is the hex
\* digest of the bytes in data), bytes, None, or the AttributeError a missing
\* method raises.
Str(text) == [ type |-> "str", data |-> text, hashed |-> FALSE ]
Bytes(data) == [ type |-> "bytes", data |-> data, hashed |-> FALSE ]
None == [ type |-> "NoneType", data |-> << >>, hashed |-> FALSE ]
AttributeError == [ type |-> "AttributeError", data |-> << >>, hashed |-> FALSE ]

\* value.encode('utf-8'): a method of str only.
Encode(value) ==
  IF value.type = "str" THEN Bytes(value.data) ELSE AttributeError

\* value.hexdigest(): a method of hash objects, not of str.
Hexdigest(value) == AttributeError

\* hash.sha512(data): hashlib.sha512(data.encode("utf-8")).hexdigest(), a str.
\* The digest of a byte string is kept as the byte string, marked hashed.
sha512(data) ==
  IF Encode(data).type = "AttributeError" THEN AttributeError
  ELSE [ type |-> "str", data |-> Encode(data).data, hashed |-> TRUE ]

\* The admin token "t" and config.api_token_sha256, its SHA-512 hex digest.
AdminToken == << 116 >>
API_TOKEN_SHA256 == [ type |-> "str", data |-> AdminToken, hashed |-> TRUE ]

\* request.form.get("token"): the token of the form, or None without one.
FormTokens == { Str(AdminToken), Str(<< 120 >>), None }

\* reload_config(): sha512 is handed token.encode('utf-8'), and .hexdigest()
\* is called on what it returns.  loads counts the runs of load_config().
ReloadConfig(loads, token) ==
  LET encoded == Encode(token)
      hashed == IF encoded.type = "AttributeError" THEN AttributeError ELSE sha512(encoded)
      digest == IF hashed.type = "AttributeError" THEN AttributeError ELSE Hexdigest(hashed)
  IN  IF digest.type = "AttributeError"
      THEN [config_loads |-> loads, response |-> "500", path |-> "raise"]
      ELSE IF digest = API_TOKEN_SHA256
      THEN [config_loads |-> loads + 1, response |-> Abort("200"), path |-> "reloaded"]
      ELSE [config_loads |-> loads, response |-> Abort("404"), path |-> "denied"]

reload_config(c, token) ==
  /\ ReloadConfig(config_loads, token).config_loads <= MaxLoads
  /\ config_loads' = ReloadConfig(config_loads, token).config_loads
  /\ response' = [response EXCEPT ![c] = ReloadConfig(config_loads, token).response]
  /\ UNCHANGED << db_type, schema, db, clock, registered, renamed, session, pc, call >>

\* The application as main.py starts it.
InitWeb == Init /\ db_type = "mysql"

(***************************************************************************)
(* Specifications.                                                         *)
(***************************************************************************)

\* The repository calls one after another, all within one tick of the clock
\* and from one address, with one name to register and one to rename to.
Next ==
  \/ \E username \in {<<97, 108>>}, ip \in {"1.2.3.4"}, current_time \in SameTick :
       register_new_user(username, ip, current_time)
  \/ \E user_id \in UserIds, ip \in {"1.2.3.4"}, current_time \in SameTick :
       update_user_login_info(user_id, ip, current_time)
  \/ \E user_id \in UserIds, new_username \in {<<98, 111, 98>>} :
       update_username(user_id, new_username)
  \/ \E user_id \in UserIds, song \in SongInputs, current_time \in SameTick :
       submit_song(user_id, song.song_id, song.song_name, song.is_explicit, current_time)
  \/ get_songs_and_info
  \/ \E user_id \in UserIds, song_id \in SongIds, current_time \in SameTick :
       vote_song(user_id, song_id, current_time)

Spec == Init /\ [][Next]_vars

\* The user repository alone, with every name and address and a clock that moves.
NextUsers ==
  \/ \E username \in Usernames, ip \in Ips, current_time \in Now :
       register_new_user(username, ip, current_time)
  \/ \E username \in Usernames : user_exists(username)
  \/ \E user_id \in UserIds : get_user_details(user_id)
  \/ \E user_id \in UserIds, ip \in Ips, current_time \in Now :
       update_user_login_info(user_id, ip, current_time)
  \/ \E user_id \in UserIds, new_username \in NewUsernames :
       update_username(user_id, new_username)

SpecUsers == Init /\ [][NextUsers]_vars

\* Users register and submit one call at a time; the workers' vote_song calls
\* overlap.
NextConcurrent ==
  \/ \E username \in {<<97, 108>>}, ip \in {"1.2.3.4"}, current_time \in SameTick :
       register_new_user(username, ip, current_time)
  \/ \E user_id \in UserIds, song \in SongInputs, current_time \in SameTick :
       submit_song(user_id, song.song_id, song.song_name, song.is_explicit, current_time)
  \/ \E w \in 1..NumWorkers, user_id \in UserIds, song_id \in SongIds :
       vote_song_check(w, user_id, song_id)
  \/ \E w \in 1..NumWorkers, current_time \in SameTick : vote_song_write(w, current_time)

SpecConcurrent == Init /\ [][NextConcurrent]_vars

\* From an empty store: the construct functions, and the user calls once the
\* Users table is there.
NextSchema ==
  \/ construct_mysql_database
  \/ \E form \in CallForms : construct_sqlite_database(form)
  \/ \E username \in Usernames, ip \in Ips, current_time \in Now :
       "Users" \in schema.tables /\ register_new_user(username, ip, current_time)
  \/ \E user_id \in UserIds, ip \in Ips, current_time \in Now :
       "Users" \in schema.tables /\ update_user_login_info(user_id, ip, current_time)

SpecSchema == InitEmpty /\ [][NextSchema]_vars

\* Workers that sign in at the same time, each with exists then register.
NextRegisterRace ==
  \/ \E w \in 1..NumWorkers, username \in Usernames : worker_user_exists(w, username)
  \/ \E w \in 1..NumWorkers, ip \in Ips, current_time \in SameTick :
       worker_register_new_user(w, ip, current_time)

SpecRegisterRace == Init /\ [][NextRegisterRace]_vars

\* The routes of the web application, one request at a time.
NextWeb ==
  \/ \E c \in Clients, userinfo \in Userinfos, remote_addr \in Ips,
        current_time \in SameTick :
       authorize(c, userinfo, remote_addr, current_time)
  \/ \E c \in Clients : index(c)
  \/ \E c \in Clients : logout(c)
  \/ \E c \in Clients : api_submit_song(c)
  \/ \E c \in Clients, token \in FormTokens : reload_config(c, token)

SpecWeb == InitWeb /\ [][NextWeb]_vars

\* Logins from changing addresses at changing times, among renames, submits
\* and votes.
NextLogin ==
  \/ \E ip \in {"1.2.3.4"}, current_time \in Now :
       register_new_user(<<97, 108>>, ip, current_time)
  \/ \E user_id \in UserIds, ip \in Ips, current_time \in Now :
       update_user_login_info(user_id, ip, current_time)
  \/ \E user_id \in UserIds : update_username(user_id, <<98, 111, 98>>)
  \/ \E user_id \in UserIds, current_time \in Now :
       submit_song(user_id, <<83, 49>>, <<84>>, FALSE, current_time)
  \/ \E user_id \in UserIds, current_time \in Now :
       vote_song(user_id, <<83, 49>>, current_time)

SpecLogin == Init /\ [][NextLogin]_vars

(***************************************************************************)
(* Properties.  The vocabulary below reads the rows directly; it does not  *)
(* go through the operators of the methods.                                *)
(***************************************************************************)

Times == 0..MaxClock

\* The number of Song_Votes rows of user u for song s.
VoteRows(d, u, s) ==
  BagCardinality([row \in { v \in BagToSet(d.Song_Votes) :
                            v.user_id = u /\ v.song_id = s } |->
                    CopiesIn(row, d.Song_Votes)])

HasVoteRow(d, u, s) == VoteRows(d, u, s) > 0

\* list with s appended as the CASE ... CONCAT expression of the updates does.
Appended(list, s) == IF list = << -1 >> THEN s ELSE list \o << 44 >> \o s

\* C1: once a Vote row for (u, s) exists, a later vote_song(u, s) changes no
\* row, whatever fault it meets, and when its check query runs it returns at
\* the already-voted return, with False; a second vote leaves vote_count at 1.
C1_SecondVoteIsAlreadyVoted ==
  \A u \in UserIds, s \in SongIds, t \in Times, fault \in VoteFaults :
    HasVoteRow(db, u, s) =>
      LET r == VoteSong(db, u, s, t, fault)
      IN  /\ r.db = db
          /\ fault \notin VoteCheckFaults =>
               r.path = "already_voted" /\ r.value = FALSE

\* A vote was accepted for an existing song and the same vote is tried again.
C1_Witness ==
  \E u \in DOMAIN db.Users, s \in DOMAIN db.Songs :
    /\ HasVoteRow(db, u, s)
    /\ db.Songs[s].vote_count = 1
    /\ VoteSong(db, u, s, clock, "none").path = "already_voted"

\* The rows after an accepted vote of u for s at time t.
AfterAcceptedVote(d, u, s, t) ==
  [ Users |-> [d.Users EXCEPT ![u].voted_songs_ids = Appended(@, s)],
    Songs |-> [d.Songs EXCEPT ![s].vote_count = @ + 1],
    Song_Votes |-> d.Song_Votes (+)
                     SetToBag({[user_id |-> u, song_id |-> s, vote_datetime |-> t]}),
    Song_Submissions |-> d.Song_Submissions ]

\* C2: vote_song by an existing user u for an existing song s, with no Vote
\* row (u, s) and no fault, returns True at the accepted return and makes
\* exactly three changes: one new Vote row (u, s), vote_count of s one higher,
\* s appended to u's voted_songs_ids; every other row is as before.
C2_AcceptedVoteMakesThreeChanges ==
  \A u \in DOMAIN db.Users, s \in DOMAIN db.Songs, t \in Times :
    ~HasVoteRow(db, u, s) =>
      LET r == VoteSong(db, u, s, t, "none")
      IN  /\ r.path = "accepted"
          /\ r.value = TRUE
          /\ r.db = AfterAcceptedVote(db, u, s, t)

\* A user who has voted for one song can cast a first vote for another.
C2_Witness ==
  \E u \in DOMAIN db.Users, s \in DOMAIN db.Songs, s2 \in DOMAIN db.Songs :
    /\ HasVoteRow(db, u, s)
    /\ db.Songs[s].vote_count = 1
    /\ db.Users[u].voted_songs_ids = s
    /\ ~HasVoteRow(db, u, s2)
    /\ VoteSong(db, u, s2, clock, "none").path = "accepted"

\* C3: in every state reached by calls that do not overlap, Song_Votes holds
\* at most one row per (user_id, song_id).
C3_AtMostOneVoteRowPerPair ==
  \A u \in UserIds, s \in SongIds : VoteRows(db, u, s) <= 1

\* Votes were cast, and tried again, for more than one pair.
C3_Witness ==
  /\ BagCardinality(db.Song_Votes) >= 3
  /\ \E u \in UserIds, s \in SongIds :
       VoteRows(db, u, s) = 1 /\ VoteSong(db, u, s, clock, "none").path = "already_voted"

\* The workers whose vote_song(u, s) returned at the accepted return.
AcceptedWorkers(u, s) ==
  { w \in 1..NumWorkers :
      /\ pc[w] = "done"
      /\ call[w].user_id = u
      /\ call[w].song_id = s
      /\ call[w].path = "accepted" }

\* C4: of the overlapping vote_song(u, s) calls, whatever the order of their
\* check queries and inserts, at most one returns accepted and Song_Votes
\* holds at most one row (u, s).
C4_AtMostOneAcceptedAmongOverlapping ==
  \A u \in UserIds, s \in SongIds :
    /\ Cardinality(AcceptedWorkers(u, s)) <= 1
    /\ VoteRows(db, u, s) <= 1

\* C5: a fault at the insert of the Vote row, at the update of vote_count or
\* at the update of voted_songs_ids leaves every row as before the call, and
\* the call returns False from the except clause: it does not raise.
C5_FaultInVoteWritesRollsBack ==
  \A u \in UserIds, s \in SongIds, t \in Times,
     fault \in {"insert_vote", "update_song", "update_user"} :
    ~HasVoteRow(db, u, s) =>
      LET r == VoteSong(db, u, s, t, fault)
      IN  /\ r.db = db
          /\ r.path = "failure"
          /\ r.value = FALSE

\* A vote that would be accepted, and whose first two writes change rows, is
\* stopped at its third write.
C5_Witness ==
  \E u \in DOMAIN db.Users, s \in DOMAIN db.Songs :
    /\ ~HasVoteRow(db, u, s)
    /\ BagCardinality(db.Song_Votes) >= 1
    /\ VoteWorking(db, 2, u, s, clock) # db
    /\ VoteSong(db, u, s, clock, "update_user").path = "failure"

\* The vote_song calls that return a value, with the return statement taken.
VoteOutcomes ==
  { r \in { VoteSong(db, u, s, t, fault) :
              u \in UserIds, s \in SongIds, t \in Times, fault \in VoteFaults } :
      r.path \in {"accepted", "already_voted", "failure"} }

\* C6, as the specification states it: the value vote_song returns tells
\* accepted, already_voted and failure apart, so two calls that return at
\* different return statements return different values.
C6_OutcomesDistinguishable ==
  \A r1 \in VoteOutcomes, r2 \in VoteOutcomes :
    r1.path # r2.path => r1.value # r2.value

\* C6, amended: vote_song returns True exactly when the vote was accepted and
\* False both when the vote was already there and when the transaction
\* failed; the value tells accepted from the other two and nothing more.
C6_OutcomesAreTrueOrFalse ==
  \A r \in VoteOutcomes :
    /\ r.value \in BOOLEAN
    /\ r.value = TRUE <=> r.path = "accepted"
    /\ r.path \in {"already_voted", "failure"} => r.value = FALSE

\* All three return statements can be taken from one state.
C6_Witness ==
  \E u \in UserIds, s \in SongIds, s2 \in SongIds :
    /\ VoteSong(db, u, s, clock, "none").path = "already_voted"
    /\ VoteSong(db, u, s, clock, "check").path = "failure"
    /\ VoteSong(db, u, s2, clock, "none").path = "accepted"

\* The three effects of submit_song(u, song) at time t on the rows d0, read
\* from the rows d1: the Songs row with vote_count 0 and not hidden, one more
\* Song_Submissions row, and the owner's row (where Users has one) updated.
SubmissionRow(u, song, t) ==
  [user_id |-> u, song_id |-> song.song_id, submission_datetime |-> t]

SongRowPresent(d0, d1, u, song) ==
  /\ song.song_id \notin DOMAIN d0.Songs
  /\ song.song_id \in DOMAIN d1.Songs
  /\ d1.Songs[song.song_id].vote_count = 0
  /\ d1.Songs[song.song_id].is_being_hidden = FALSE
  /\ d1.Songs[song.song_id].user_id = u
  /\ d1.Songs[song.song_id].is_explicit = song.is_explicit

SubmissionRowPresent(d0, d1, u, song, t) ==
  CopiesIn(SubmissionRow(u, song, t), d1.Song_Submissions) =
    CopiesIn(SubmissionRow(u, song, t), d0.Song_Submissions) + 1

OwnerUpdated(d0, d1, u, song, t) ==
  u \in DOMAIN d0.Users =>
    /\ d1.Users[u].last_song_submission_datetime = t
    /\ d1.Users[u].submitted_songs_ids = Appended(d0.Users[u].submitted_songs_ids,
                                                  song.song_id)

C8_DuplicateSongIdRefused ==
  \A u \in UserIds, song \in SongInputs, t \in Times, fault \in SubmitFaults :
    song.song_id \in DOMAIN db.Songs =>
      LET r == SubmitSong(db, u, song.song_id, song.song_name, song.is_explicit, t, fault)
      IN  /\ r.db = db
          /\ r.value = FALSE
          /\ fault # "connect" => r.path = "except"

\* A song has an owner and votes, and another user with a row submits its id.
C8_Witness ==
  \E u \in DOMAIN db.Users, song \in SongInputs :
    /\ song.song_id \in DOMAIN db.Songs
    /\ db.Songs[song.song_id].user_id # u
    /\ db.Songs[song.song_id].vote_count > 0
    /\ SubmitSong(db, u, song.song_id, song.song_name, song.is_explicit, clock,
                  "none").path = "except"

\* Song s was submitted by a user who registered, and has no vote.
SubmittedAndUnvoted(s) ==
  /\ db.Songs[s].user_id \in DOMAIN registered
  /\ \A u \in UserIds : ~HasVoteRow(db, u, s)

\* get_songs_and_info() returns a mapping whose entry for s has vote_count 0,
\* hidden false, the owner's id, the name and explicit flag given to
\* submit_song, and the name the owner registered with.
ListedAsSubmitted(s) ==
  LET r == GetSongsAndInfo(db, "none")
      given == CHOOSE song \in SongInputs : song.song_id = s
  IN  /\ r.path = "return"
      /\ s \in DOMAIN r.value
      /\ r.value[s].vote_count = 0
      /\ r.value[s].is_being_hidden = FALSE
      /\ r.value[s].user_id = db.Songs[s].user_id
      /\ r.value[s].song_name = given.song_name
      /\ r.value[s].is_explicit = given.is_explicit
      /\ r.value[s].submitter_username = registered[db.Songs[s].user_id]

RegisterGivesId ==
  \A n \in Usernames, ip \in Ips, t \in Times :
    LET r == RegisterNewUser(db, n, ip, t, "none")
    IN  /\ r.path = "return"
        /\ r.value > 0
        /\ UserExists(r.db, n, "none").value = TRUE
        /\ GetUserDetails(r.db, r.value, "none").path = "return"
        /\ GetUserDetails(r.db, r.value, "none").value.username = n

\* user_exists and get_user_details, without fault, answer for user id with
\* the name it registered with.
VisibleAsRegistered(id) ==
  /\ UserExists(db, registered[id], "none").value = TRUE
  /\ GetUserDetails(db, id, "none").path = "return"
  /\ GetUserDetails(db, id, "none").value.username = registered[id]

\* C10, as the specification states it: a successful register_new_user(n, ip)
\* returns a positive id, get_user_details(id).username is n, and
\* user_exists(n) is true from then on.
C10_RegisteredFromThenOn ==
  /\ RegisterGivesId
  /\ \A id \in DOMAIN registered : UserExists(db, registered[id], "none").value = TRUE

\* C10, amended: a successful register_new_user(n, ip) returns a positive id,
\* and user_exists(n) is true and get_user_details(id).username is n from
\* then until update_username writes the row of id.
C10_RegisteredUntilRenamed ==
  /\ RegisterGivesId
  /\ \A id \in DOMAIN registered : id \notin renamed => VisibleAsRegistered(id)

\* Two users registered; one was renamed since, the other still answers to
\* the name it registered with.
C10_Witness ==
  \E id \in DOMAIN registered, other \in renamed :
    /\ id \notin renamed
    /\ registered[id] = << 98, 111, 98 >>
    /\ db.Users[id].last_login_datetime > db.Users[id].first_login_datetime
    /\ VisibleAsRegistered(id)

\* C11: right after a register_new_user(n, ip) that succeeds at time t, the
\* new Users row has first and last login time t, first and last login ip
\* ip, and last_song_submission_datetime, voted_songs_ids and
\* submitted_songs_ids NULL; every other row of every table is as before.
C11_RegisteredRowFields ==
  \A n \in Usernames, ip \in Ips, t \in Times :
    LET r == RegisterNewUser(db, n, ip, t, "none")
        id == r.value
    IN  /\ r.path = "return"
        /\ DOMAIN r.db.Users = DOMAIN db.Users \cup {id}
        /\ id \notin DOMAIN db.Users
        /\ r.db.Users[id].first_login_datetime = t
        /\ r.db.Users[id].last_login_datetime = t
        /\ r.db.Users[id].first_login_ip = ip
        /\ r.db.Users[id].last_login_ip = ip
        /\ r.db.Users[id].last_song_submission_datetime = -1
        /\ r.db.Users[id].voted_songs_ids = << -1 >>
        /\ r.db.Users[id].submitted_songs_ids = << -1 >>
        /\ \A other \in DOMAIN db.Users : r.db.Users[other] = db.Users[other]
        /\ r.db.Songs = db.Songs
        /\ r.db.Song_Votes = db.Song_Votes
        /\ r.db.Song_Submissions = db.Song_Submissions

\* A second user has just registered while the first has submitted and voted.
C11_Witness ==
  /\ Len(db.Users) = 2
  /\ db.Users[1].voted_songs_ids # << -1 >>
  /\ db.Users[1].submitted_songs_ids # << -1 >>
  /\ db.Users[2].first_login_datetime = db.Users[2].last_login_datetime
  /\ db.Users[2].voted_songs_ids = << -1 >>
  /\ db.Users[2].submitted_songs_ids = << -1 >>
  /\ db.Users[2].last_song_submission_datetime = -1

\* C12: when a storage fault occurs during register_new_user, on acquiring
\* the connection or cursor, in execute or in commit, the call returns -1
\* instead of raising, and the rows are those before the call.
C12_RegisterFaultGivesSentinel ==
  \A n \in Usernames, ip \in Ips, t \in Times, fault \in UpdateFaults \ {"none"} :
    LET r == RegisterNewUser(db, n, ip, t, fault)
    IN  /\ r.db = db
        /\ r.path # "raise"
        /\ r.value = -1

\* C13: get_user_details(user_id), without storage fault, returns None for a
\* user_id with no Users row and does not raise; it returns a user exactly
\* when a row with that user_id exists.
C13_GetReturnsUserIffRowExists ==
  \A id \in UserIds :
    LET r == GetUserDetails(db, id, "none")
    IN  /\ id \notin DOMAIN db.Users => r.path = "none"
        /\ r.path = "return" <=> id \in DOMAIN db.Users
        /\ r.path = "return" => r.value.user_id = id

\* ensure_schema on the engine of the wrapper: the construct function of
\* db_type, called in the given form, meeting the given fault.
EnsureSchema(form, fault) ==
  IF db_type = "mysql"
  THEN ConstructMysqlDatabase(schema, fault)
  ELSE ConstructSqliteDatabase(schema, form, fault)

NoFault == [at |-> "none", k |-> 0]

\* The faults ensure_schema can meet on the engine of the wrapper.
EnsureSchemaFaults ==
  IF db_type = "mysql" THEN ConstructFaults(MysqlStatements)
  ELSE ConstructFaults(SqliteStatements) \ {[at |-> "commit", k |-> 0]}

\* C14: ensure_schema is idempotent and non-destructive.  Without fault, no
\* call errors; on an empty store the call returns created (0) and leaves
\* the whole schema; on a store that has the schema the call returns
\* already_present (1) and leaves the tables and foreign keys as they were.
C14_EnsureSchemaIdempotent ==
  \A form \in CallForms :
    LET r == EnsureSchema(form, NoFault)
    IN  /\ r.path # "raise"
        /\ schema = EmptySchema =>
             r.path = "success" /\ r.value = 0 /\ r.schema = Constructed
        /\ schema = Constructed =>
             r.path = "already_exists" /\ r.value = 1 /\ r.schema = schema

\* C15: ensure_schema always returns created, already_present or failed: a
\* fault while inspecting the store or while creating tables or foreign
\* keys gives failed (-1) and is not raised.
C15_EnsureSchemaTriState ==
  \A form \in CallForms, fault \in EnsureSchemaFaults :
    LET r == EnsureSchema(form, fault)
    IN  /\ r.path \in {"success", "already_exists", "failed"}
        /\ r.path = "failed" <=> r.value = -1

\* C16: the two engines are observationally equivalent.  From the same rows,
\* the same call meeting the same fault returns the same way with the same
\* value and leaves the same rows on MySQL and on SQLite; so the same
\* sequence of calls gives the same results on both.  (register, exists,
\* get, record_login and list run the same statements on both engines; the
\* calls compared here are those whose code differs by engine.)
C16_EnginesEquivalent ==
  /\ \A u \in UserIds, n \in NewUsernames, fault \in UpdateFaults :
       UpdateUsernameOn("mysql", db, u, n, fault) =
         UpdateUsernameOn("sqlite", db, u, n, fault)
  /\ \A u \in UserIds, song \in SongInputs, t \in Times, fault \in SubmitFaults :
       SubmitSongOn("mysql", db, u, song.song_id, song.song_name, song.is_explicit,
                    t, fault) =
         SubmitSongOn("sqlite", db, u, song.song_id, song.song_name, song.is_explicit,
                      t, fault)
  /\ \A u \in UserIds, s \in SongIds, t \in Times, fault \in VoteFaults :
       VoteSongOn("mysql", db, u, s, t, fault) = VoteSongOn("sqlite", db, u, s, t, fault)

\* C17: no repository operation lets a storage fault escape.  Whatever
\* statement, commit or connection acquisition faults, the call does not
\* raise: it returns its failure value (-1, False or None) and the rows are
\* those before the call.
C17_NoFaultEscapes ==
  /\ \A n \in Usernames, ip \in Ips, t \in Times, fault \in UpdateFaults \ {"none"} :
       LET r == RegisterNewUser(db, n, ip, t, fault)
       IN  r.path # "raise" /\ r.value = -1 /\ r.db = db
  /\ \A n \in Usernames, fault \in QueryFaults \ {"none"} :
       LET r == UserExists(db, n, fault)
       IN  r.path # "raise" /\ r.value = FALSE
  /\ \A u \in UserIds, fault \in QueryFaults \ {"none"} :
       GetUserDetails(db, u, fault).path # "raise"
  /\ \A u \in UserIds, ip \in Ips, t \in Times, fault \in UpdateFaults \ {"none"} :
       LET r == UpdateUserLoginInfo(db, u, ip, t, fault)
       IN  r.path # "raise" /\ r.value = FALSE /\ r.db = db
  /\ \A u \in UserIds, n \in NewUsernames, fault \in UpdateFaults \ {"none"} :
       LET r == UpdateUsername(db, u, n, fault)
       IN  r.path # "raise" /\ r.value = FALSE /\ r.db = db
  /\ \A u \in UserIds, song \in SongInputs, t \in Times,
        fault \in SubmitFaults \ {"none"} :
       LET r == SubmitSong(db, u, song.song_id, song.song_name, song.is_explicit, t, fault)
       IN  r.path # "raise" /\ r.value = FALSE /\ r.db = db
  /\ \A fault \in QueryFaults \ {"none"} : GetSongsAndInfo(db, fault).path # "raise"
  /\ \A u \in UserIds, s \in SongIds, t \in Times, fault \in VoteFaults \ {"none"} :
       LET r == VoteSong(db, u, s, t, fault)
       IN  r.path # "raise" /\ r.value = FALSE /\ r.db = db

\* The return statements each method can take from the rows of the state
\* (a call that raises does not return).
ReturnPaths(method) ==
  LET paths ==
        CASE method = "register_new_user" ->
               { RegisterNewUser(db, n, ip, t, fault).path :
                   n \in Usernames, ip \in Ips, t \in Times, fault \in UpdateFaults }
          [] method = "user_exists" ->
               { UserExists(db, n, fault).path : n \in Usernames, fault \in QueryFaults }
          [] method = "get_user_details" ->
               { GetUserDetails(db, u, fault).path : u \in UserIds, fault \in QueryFaults }
          [] method = "update_user_login_info" ->
               { UpdateUserLoginInfo(db, u, ip, t, fault).path :
                   u \in UserIds, ip \in Ips, t \in Times, fault \in UpdateFaults }
          [] method = "update_username" ->
               { UpdateUsername(db, u, n, fault).path :
                   u \in UserIds, n \in NewUsernames, fault \in UpdateFaults }
          [] method = "submit_song" ->
               { SubmitSong(db, u, song.song_id, song.song_name, song.is_explicit,
                            t, fault).path :
                   u \in UserIds, song \in SongInputs, t \in Times, fault \in SubmitFaults }
          [] method = "get_songs_and_info" ->
               { GetSongsAndInfo(db, fault).path : fault \in QueryFaults }
          [] OTHER ->
               { VoteSong(db, u, s, t, fault).path :
                   u \in UserIds, s \in SongIds, t \in Times, fault \in VoteFaults }
  IN  paths \ {"raise"}

\* C18: every repository call releases the connection and the cursor it
\* acquired on every exit path: after a call returns, with success,
\* already_voted, absent or failure, nothing it opened is still open.
C18_NothingLeftOpen ==
  \A method \in Methods, collector \in Collectors :
    \A path \in ReturnPaths(method) :
      StillOpen(db_type, method, path, collector) = {}

\* The workers whose register_new_user(n, ip) returned an id.
RegisteredWorkers(n) ==
  { w \in 1..NumWorkers :
      pc[w] = "done" /\ call[w].path = "return" /\ call[w].username = n }

\* C19: uniqueness of usernames rests on the caller's pre-check alone.
\* register_new_user without fault adds a row and returns its id also when
\* the name is stored already; and when two workers both had False from
\* user_exists(n) before either registered, both registrations that return
\* an id leave two Users rows with distinct user_ids and the same username.
C19_RegisterNeverRejectsDuplicate ==
  /\ \A n \in Usernames, ip \in Ips, t \in Times :
       LET r == RegisterNewUser(db, n, ip, t, "none")
       IN  /\ r.path = "return"
           /\ r.value = Len(db.Users) + 1
           /\ Len(r.db.Users) = Len(db.Users) + 1
  /\ \A n \in Usernames, w1 \in 1..NumWorkers, w2 \in 1..NumWorkers :
       w1 # w2 /\ {w1, w2} \subseteq RegisteredWorkers(n) =>
         /\ call[w1].user_id # call[w2].user_id
         /\ call[w1].user_id \in DOMAIN db.Users
         /\ call[w2].user_id \in DOMAIN db.Users
         /\ db.Users[call[w1].user_id].username = db.Users[call[w2].user_id].username
         /\ registered[call[w1].user_id] = n
         /\ registered[call[w2].user_id] = n

\* Two workers registered the same name; both pre-checks had answered False.
C19_Witness ==
  \E n \in Usernames :
    /\ Cardinality(RegisteredWorkers(n)) = 2
    /\ Len(db.Users) = 2
    /\ db.Users[1].username = db.Users[2].username

\* The Users rows stored for name n by register_new_user.
RowsNamed(d, n) == { i \in DOMAIN d.Users : d.Users[i].username = obfuscate(n) }

\* C20: on each successful sign-in the web layer registers the identity when
\* user_exists(name) is False and records a login when it is True; so after
\* any sequence of sign-ins, one at a time, a sign-in by name n from address
\* ip at time t leaves exactly one Users row for n, with last login time t
\* and last login ip ip.
C20_SignInRegistersOrTouches ==
  \A c \in Clients, userinfo \in Userinfos, ip \in Ips, t \in Times :
    endswith(userinfo.email, EMAIL_DOMAIN) =>
      LET r == Authorize(db, session[c], userinfo, ip, t, "none", TRUE)
      IN  /\ r.path = "return"
          /\ Cardinality(RowsNamed(r.db, userinfo.given_name)) = 1
          /\ \A i \in RowsNamed(r.db, userinfo.given_name) :
               /\ r.db.Users[i].last_login_datetime = t
               /\ r.db.Users[i].last_login_ip = ip

\* C21: the admin reload endpoint reloads the configuration if and only if
\* the SHA-512 digest of the presented token equals the stored digest, which
\* is so exactly for the admin token; for every other token, a missing one
\* included, nothing is loaded and the request is denied.
C21_ReloadIffTokenMatches ==
  \A token \in FormTokens :
    LET r == ReloadConfig(config_loads, token)
        matches == token.type = "str" /\ token.data = AdminToken
    IN  /\ matches => r.config_loads = config_loads + 1 /\ r.response = "200"
        /\ ~matches => r.config_loads = config_loads /\ r.response # "200"

\* Every row that names a user or a song names one that has a row.
ReferencesResolve(d) ==
  /\ \A k \in DOMAIN d.Songs : d.Songs[k].user_id \in DOMAIN d.Users
  /\ \A row \in BagToSet(d.Song_Submissions) :
       row.user_id \in DOMAIN d.Users /\ row.song_id \in DOMAIN d.Songs
  /\ \A row \in BagToSet(d.Song_Votes) :
       row.user_id \in DOMAIN d.Users /\ row.song_id \in DOMAIN d.Songs

\* C22: on both engines every Song row's owner, every Submission row's user
\* and song, and every Vote row's user and song have a row; a submit_song for
\* a user_id without a row, and a vote_song for a user_id or song_id without
\* a row, add no row and do not return success.
C22_ReferentialIntegrity ==
  /\ ReferencesResolve(db)
  /\ \A u \in UserIds, song \in SongInputs, t \in Times, fault \in SubmitFaults :
       u \notin DOMAIN db.Users =>
         LET r == SubmitSong(db, u, song.song_id, song.song_name, song.is_explicit, t, fault)
         IN  r.db = db /\ r.value # TRUE
  /\ \A u \in UserIds, s \in SongIds, t \in Times, fault \in VoteFaults :
       (u \notin DOMAIN db.Users \/ s \notin DOMAIN db.Songs) =>
         LET r == VoteSong(db, u, s, t, fault)
         IN  r.db = db /\ r.value # TRUE

\* The counters of the songs of d0 are the same in d1.
CountsKept(d0, d1) ==
  \A k \in DOMAIN d0.Songs :
    k \in DOMAIN d1.Songs /\ d1.Songs[k].vote_count = d0.Songs[k].vote_count

\* The songs of d1 that d0 does not have start with a counter of 0.
CountsStartAtZero(d0, d1) ==
  \A k \in DOMAIN d1.Songs \ DOMAIN d0.Songs : d1.Songs[k].vote_count = 0

\* C23: a song's vote_count is 0 when the song is created, is never negative
\* and never decreases; register, record_login, rename and submit_song leave
\* the counter of every existing song as it is, whatever fault they meet, and a
\* vote_song can change only the counter of the song voted for, upwards.
C23_VoteCountOnlyGrowsByVote ==
  /\ \A k \in DOMAIN db.Songs : db.Songs[k].vote_count >= 0
  /\ \A n \in Usernames, ip \in Ips, t \in Times, fault \in UpdateFaults :
       CountsKept(db, RegisterNewUser(db, n, ip, t, fault).db)
  /\ \A u \in UserIds, ip \in Ips, t \in Times, fault \in UpdateFaults :
       CountsKept(db, UpdateUserLoginInfo(db, u, ip, t, fault).db)
  /\ \A u \in UserIds, n \in NewUsernames, fault \in UpdateFaults :
       CountsKept(db, UpdateUsername(db, u, n, fault).db)
  /\ \A u \in UserIds, song \in SongInputs, t \in Times, fault \in SubmitFaults :
       LET r == SubmitSong(db, u, song.song_id, song.song_name, song.is_explicit, t, fault)
       IN  CountsKept(db, r.db) /\ CountsStartAtZero(db, r.db)
  /\ \A u \in UserIds, s \in SongIds, t \in Times, fault \in VoteFaults :
       LET r == VoteSong(db, u, s, t, fault)
       IN  /\ DOMAIN r.db.Songs = DOMAIN db.Songs
           /\ \A k \in DOMAIN db.Songs :
                /\ r.db.Songs[k].vote_count >= db.Songs[k].vote_count
                /\ k # s => r.db.Songs[k].vote_count = db.Songs[k].vote_count

\* Two songs stored, one of them voted for.
C23_Witness ==
  /\ Cardinality(DOMAIN db.Songs) = 2
  /\ \E k \in DOMAIN db.Songs : db.Songs[k].vote_count >= 1
  /\ \E k \in DOMAIN db.Songs : db.Songs[k].vote_count = 0

\* The number of Song_Votes rows for song s.
SongVoteRows(d, s) ==
  BagCardinality([row \in { v \in BagToSet(d.Song_Votes) : v.song_id = s } |->
                    CopiesIn(row, d.Song_Votes)])

\* C24: in every state reached by calls that do not overlap, the vote_count
\* of every stored song equals the number of Vote rows for that song, also
\* when votes for the song_id were cast before the song was submitted.
C24_VoteCountEqualsVoteRows ==
  \A k \in DOMAIN db.Songs : db.Songs[k].vote_count = SongVoteRows(db, k)

\* The number of rows of the bag rows that name user u and song s.
RowsOf(rows, u, s) ==
  BagCardinality([row \in { v \in BagToSet(rows) : v.user_id = u /\ v.song_id = s } |->
                    CopiesIn(row, rows)])

\* The orders in which the rows of user u in rows can have been inserted, as
\* sequences of their song_ids.
RowOrders(rows, u) ==
  LET n == BagCardinality([row \in { v \in BagToSet(rows) : v.user_id = u } |->
                             CopiesIn(row, rows)])
  IN  { order \in [1..n -> SongIds] :
          \A s \in SongIds :
            Cardinality({ i \in 1..n : order[i] = s }) = RowsOf(rows, u, s) }

\* ids joined by commas; the null list for no id.
RECURSIVE CommaJoined(_)
CommaJoined(ids) ==
  IF ids = << >> THEN << -1 >>
  ELSE IF Len(ids) = 1 THEN ids[1]
  ELSE CommaJoined(SubSeq(ids, 1, Len(ids) - 1)) \o << 44 >> \o ids[Len(ids)]

\* C25: for every stored user, submitted_songs_ids is null when the user has
\* no Submission row and otherwise the comma-joined song_ids of the user's
\* Submission rows in the order they were inserted; voted_songs_ids is the
\* same for the user's Vote rows.
C25_IdListsMirrorRows ==
  \A u \in DOMAIN db.Users :
    /\ db.Users[u].submitted_songs_ids \in
         { CommaJoined(order) : order \in RowOrders(db.Song_Submissions, u) }
    /\ db.Users[u].voted_songs_ids \in
         { CommaJoined(order) : order \in RowOrders(db.Song_Votes, u) }

\* C26: update_username on an existing user stores new_username itself, not
\* obfuscated, in that user's username and changes nothing else in that or
\* any other row; register_new_user stores obfuscate(username).
C26_RenameStoresRawName ==
  /\ \A u \in DOMAIN db.Users, n \in NewUsernames :
       UpdateUsername(db, u, n, "none").db = [db EXCEPT !.Users[u].username = n]
  /\ \A n \in Usernames, ip \in Ips, t \in Times :
       LET r == RegisterNewUser(db, n, ip, t, "none")
       IN  /\ r.value \in DOMAIN r.db.Users
           /\ r.db.Users[r.value].username = obfuscate(n)

\* C27: after update_username(u, n) has returned True for an existing user
\* u, get_user_details(u) does not raise and returns the user with username
\* n, for every n.
C27_GetAfterRenameReturnsNewName ==
  \A u \in DOMAIN db.Users, n \in NewUsernames :
    LET r == UpdateUsername(db, u, n, "none")
        g == GetUserDetails(r.db, u, "none")
    IN  r.value = TRUE => g.path = "return" /\ g.value.username = n

\* C28: after update_username(u, n) has returned True for an existing user
\* u, user_exists(n) returns True, so that a sign-in under n is taken for a
\* returning user.
C28_ExistsAfterRename ==
  \A u \in DOMAIN db.Users, n \in NewUsernames :
    LET r == UpdateUsername(db, u, n, "none")
    IN  r.value = TRUE => UserExists(r.db, n, "none").value = TRUE

\* C29: get_songs_and_info returns None only when no Songs row is stored or
\* the query faults; once a song is stored, after any successful registers,
\* logins, renames, submits and votes, it returns a mapping with exactly one
\* entry per stored Songs row, whose vote_count is the stored counter.
C29_ListHasOneEntryPerSong ==
  LET r == GetSongsAndInfo(db, "none")
  IN  /\ r.path # "return" => DOMAIN db.Songs = {}
      /\ DOMAIN db.Songs # {} =>
           /\ r.path = "return"
           /\ DOMAIN r.value = DOMAIN db.Songs
           /\ \A k \in DOMAIN db.Songs : r.value[k].vote_count = db.Songs[k].vote_count

\* The four relations of the store.
Relations == {"Users", "Songs", "Song_Votes", "Song_Submissions"}

\* C30: whenever ensure_schema returns created (0) or already present (1),
\* all four relations exist afterwards, also when the store held only some of
\* them before the call and when an earlier call faulted part-way.
C30_ReturnedSchemaIsComplete ==
  \A form \in CallForms, fault \in EnsureSchemaFaults :
    LET r == EnsureSchema(form, fault)
    IN  r.path \in {"success", "already_exists"} => Relations \subseteq r.schema.tables

\* The first login of every user of d0 is the same in d1.
FirstLoginKept(d0, d1) ==
  \A u \in DOMAIN d0.Users :
    /\ u \in DOMAIN d1.Users
    /\ d1.Users[u].first_login_datetime = d0.Users[u].first_login_datetime
    /\ d1.Users[u].first_login_ip = d0.Users[u].first_login_ip

\* The rows d0 with the last login of user u set to time t and address ip,
\* and nothing else touched.
WithLastLogin(d0, u, t, ip) ==
  [d0 EXCEPT !.Users =
     [k \in DOMAIN d0.Users |->
        IF k = u
        THEN [f \in DOMAIN d0.Users[k] |->
                CASE f = "last_login_datetime" -> t
                  [] f = "last_login_ip" -> ip
                  [] OTHER -> d0.Users[k][f]]
        ELSE d0.Users[k]]]

\* C31: update_user_login_info(u, ip) on an existing user changes only that
\* user's last_login_datetime and last_login_ip, every other field and every
\* other row staying as it is (and nothing at all when it fails); no
\* update_user_login_info, update_username, submit_song or vote_song ever
\* changes a user's first_login_datetime or first_login_ip.
C31_LoginTouchesOnlyLastLogin ==
  /\ \A u \in DOMAIN db.Users, ip \in Ips, t \in Times, fault \in UpdateFaults :
       LET r == UpdateUserLoginInfo(db, u, ip, t, fault)
       IN  /\ r.value = TRUE => r.db = WithLastLogin(db, u, t, ip)
           /\ r.value # TRUE => r.db = db
           /\ fault = "none" => r.value = TRUE
           /\ FirstLoginKept(db, r.db)
  /\ \A u \in UserIds, n \in NewUsernames, fault \in UpdateFaults :
       FirstLoginKept(db, UpdateUsername(db, u, n, fault).db)
  /\ \A u \in UserIds, song \in SongInputs, t \in Times, fault \in SubmitFaults :
       FirstLoginKept(db, SubmitSong(db, u, song.song_id, song.song_name,
                                     song.is_explicit, t, fault).db)
  /\ \A u \in UserIds, s \in SongIds, t \in Times, fault \in VoteFaults :
       FirstLoginKept(db, VoteSong(db, u, s, t, fault).db)

\* A user who registered at one address and time, logged in later from
\* another, and has submitted and voted since.
C31_Witness ==
  \E u \in DOMAIN db.Users :
    /\ db.Users[u].last_login_ip # db.Users[u].first_login_ip
    /\ db.Users[u].last_login_datetime > db.Users[u].first_login_datetime
    /\ db.Users[u].submitted_songs_ids # << -1 >>
    /\ db.Users[u].voted_songs_ids # << -1 >>

\* C32: update_user_login_info(user_id, ip) for a user_id that has no Users
\* row makes no existence check: without a storage fault it returns True, and
\* in every case it leaves every stored row as it is and creates none.
C32_LoginOfMissingUserSucceeds ==
  \A u \in UserIds \ DOMAIN db.Users, ip \in Ips, t \in Times, fault \in UpdateFaults :
    LET r == UpdateUserLoginInfo(db, u, ip, t, fault)
    IN  /\ r.db = db
        /\ fault = "none" => r.value = TRUE /\ r.path = "return"

\* A store with a user and a song in which user_id 2 has no row.
C32_Witness ==
  /\ DOMAIN db.Users = {1}
  /\ DOMAIN db.Songs # {}
  /\ db.Users[1].last_login_ip # db.Users[1].first_login_ip

\* C33: when a storage fault occurs during user_exists(username), the call
\* returns False through its except clause instead of raising; without a fault
\* it returns True exactly when the stored username of some Users row equals
\* obfuscate(username).  The call writes nothing in either case.
C33_ExistsFaultMeansNotFound ==
  \A n \in Usernames \cup NewUsernames, fault \in QueryFaults :
    LET r == UserExists(db, n, fault)
    IN  /\ r.path # "raise"
        /\ DOMAIN r = {"path", "value"}
        /\ fault # "none" => r.value = FALSE
        /\ fault = "none" =>
             (r.value = TRUE <=> \E i \in DOMAIN db.Users : db.Users[i].username = obfuscate(n))

\* "al" is registered and found, "bob" is not stored and not found.
C33_Witness ==
  /\ \E i \in DOMAIN db.Users : db.Users[i].username = obfuscate(<<97, 108>>)
  /\ \A i \in DOMAIN db.Users : db.Users[i].username # obfuscate(<<98, 111, 98>>)
  /\ UserExists(db, <<97, 108>>, "none").value = TRUE
  /\ UserExists(db, <<98, 111, 98>>, "none").value = FALSE

OfConfiguredDomain(email) ==
  \E i \in 1..Len(email) : SubSeq(email, i, Len(email)) = << 107, 46, 108, 116 >>

LoggedIn(sess) == "logged_in" \in DOMAIN sess

\* What holds of client c's session whatever reading is given to the effect
\* of an authorize with another email: a logged-in session holds an identity
\* of the configured domain; index does not change whether it is logged in;
\* logout of a logged-in session empties it, and both protected routes
\* redirect the emptied session.
LoggedInBetweenAuthorizeAndLogout(c) ==
  /\ LoggedIn(session[c]) =>
       /\ "user_info" \in DOMAIN session[c]
       /\ OfConfiguredDomain(session[c]["user_info"].email)
       /\ Logout(session[c]).session = << >>
       /\ Logout(Logout(session[c]).session).response = "307 /"
       /\ SubmitSongView(Logout(session[c]).session).response = "307 /"
  /\ ~LoggedIn(session[c]) => ~LoggedIn(Logout(session[c]).session)
  /\ LoggedIn(Index(session[c]).session) <=> LoggedIn(session[c])
  /\ LoggedIn(SubmitSongView(session[c]).session) <=> LoggedIn(session[c])
  /\ \A userinfo \in Userinfos, ip \in Ips, t \in Times, fault \in AuthorizeFaults,
        saved \in BOOLEAN :
       LET r == Authorize(db, session[c], userinfo, ip, t, fault, saved)
       IN  /\ (LoggedIn(r.session) /\ ~LoggedIn(session[c])) =>
                OfConfiguredDomain(userinfo.email)
           /\ ~OfConfiguredDomain(userinfo.email) =>
                r.session["login_message"] = "Bad email."

\* C35 (as stated): a session is logged in only between an authorize whose
\* email ends with the configured domain and the next logout; an authorize
\* with any other email leaves the session not logged in, with login_message
\* "Bad email."; after logout the session is empty and the protected routes
\* redirect.
C35_BadEmailLeavesNotLoggedIn ==
  \A c \in Clients :
    /\ LoggedInBetweenAuthorizeAndLogout(c)
    /\ \A userinfo \in Userinfos, ip \in Ips, t \in Times, fault \in AuthorizeFaults,
          saved \in BOOLEAN :
         ~OfConfiguredDomain(userinfo.email) =>
           ~LoggedIn(Authorize(db, session[c], userinfo, ip, t, fault, saved).session)

\* C35 (amended): as above, but an authorize with any other email leaves the
\* session logged in exactly when it was logged in before, and otherwise as
\* it was apart from login_message "Bad email.".
C35_BadEmailKeepsLoginState ==
  \A c \in Clients :
    /\ LoggedInBetweenAuthorizeAndLogout(c)
    /\ \A userinfo \in Userinfos, ip \in Ips, t \in Times, fault \in AuthorizeFaults,
          saved \in BOOLEAN :
         ~OfConfiguredDomain(userinfo.email) =>
           LET r == Authorize(db, session[c], userinfo, ip, t, fault, saved)
           IN  /\ LoggedIn(r.session) <=> LoggedIn(session[c])
               /\ \A k \in DOMAIN session[c] \ {"login_message"} :
                    k \in DOMAIN r.session /\ r.session[k] = session[c][k]
               /\ DOMAIN r.session = DOMAIN session[c] \cup {"login_message"}

\* A logged-in session that a later authorize with another email has marked
\* "Bad email.".
C35_Witness ==
  \E c \in Clients :
    /\ LoggedIn(session[c])
    /\ "login_message" \in DOMAIN session[c]
    /\ session[c]["login_message"] = "Bad email."

====
